---- MODULE Spec2Model ----
(***************************************************************************)
(* Model of AutoRoutePy/prepare/prepare.py: the append operations of       *)
(* AutoRoutePrepare that rewrite the Stream Index Table (stream info       *)
(* file) through a temporary file followed by os.remove and os.rename.     *)
(*                                                                         *)
(* A table cell is modelled by the integer its text denotes; a row is the  *)
(* sequence of its cells, so the Python slices row[:5], row[:6], row[6:]   *)
(* are modelled as slices of sequences.  Feature ID fields are modelled in *)
(* tenths (15 stands for the text "1.5"), so int(float(x)) is x \div 10.   *)
(***************************************************************************)
EXTENDS Integers, Sequences, FiniteSets, TLC

VARIABLES
    file,               \* content of the path self.stream_info_file
    temp,               \* content of the path temp_stream_info_file
    pc,                 \* position of the running operation
    opname,             \* the append operation that is running or ran last
    inp,                \* the arguments and external data of that operation
    stream_info_table,  \* local: the rows read by csv_to_list(...)[1:]
    idx,                \* local: position of the operation's outer loop
    log,                \* IDs named by the diagnostics printed so far
    err,                \* the exception the operation raised, or "none"
    orig,               \* the stream info file as it was when the call began
    nops                \* number of operations started

vars == <<file, temp, pc, opname, inp, stream_info_table, idx, log, err, orig, nops>>

----------------------------------------------------------------------------
\* Bounds of the model

MaxRows == 3        \* rows of the table the upstream step wrote
MaxId == 2          \* stream IDs are 1..MaxId
MaxFeatures == 2    \* features of the stream shapefile layer
MaxOps == 2         \* append operations called one after the other
MaxTime == 2        \* size_time of the RAPID output file
MaxBudget == 2      \* scaled-down element budgets tried for max_chunk_size

----------------------------------------------------------------------------
\* Generic helpers: Python slices, numpy.unique, numpy.where

Min(a, b) == IF a <= b THEN a ELSE b

\* row[:n]
Take(s, n) == SubSeq(s, 1, Min(n, Len(s)))
\* row[n:]
Drop(s, n) == SubSeq(s, Min(n, Len(s)) + 1, Len(s))

RECURSIVE SortedSeq(_)
SortedSeq(S) ==
    IF S = {} THEN <<>>
    ELSE LET m == CHOOSE x \in S : \A y \in S : x <= y
         IN <<m>> \o SortedSeq(S \ {m})

Range(s) == {s[i] : i \in 1..Len(s)}

\* np.array([row[3] for row in stream_info_table], dtype=np.int32)
StreamIdList(table) == [i \in 1..Len(table) |-> table[i][4]]

\* np.unique(streamid_list_full)
Unique(list) == SortedSeq(Range(list))

\* a faulty variant of Where: the positions in descending order
WhereDescending(list, v) ==
    LET w == SelectSeq([i \in 1..Len(list) |-> i], LAMBDA i : list[i] = v)
    IN [k \in 1..Len(w) |-> w[Len(w) + 1 - k]]

\* np.where(list == v)[0]: the positions holding v, ascending
Where(list, v) ==
    SelectSeq([i \in 1..Len(list) |-> i], LAMBDA i : list[i] = v)

\* int(float(feature.GetField(stream_id_field))), the field given in tenths
IntFloat(x) == x \div 10

----------------------------------------------------------------------------
\* The files

Absent == [exists |-> FALSE, header |-> <<>>, delim |-> "", rows |-> <<>>]

Header5 == <<"DEM_1D_Index", "Row", "Col", "StreamID", "StreamDirection">>
HeaderSlope == Header5 \o <<"Slope">>
HeaderFlow == Header5 \o <<"Slope", "Flow">>
HeaderEcmwf == Header5 \o <<"Slope", "uFlow">>

\* open(temp_stream_info_file, 'w') followed by writer.writerow(header)
OpenTemp(header, delim) ==
    [exists |-> TRUE, header |-> header, delim |-> delim, rows |-> <<>>]

\* the rows the five-column file of the upstream step can hold
BaseRow(i, sid) == <<10 + i, 20 + i, 30 + i, sid, 40 + i>>
StreamIds == 1..MaxId
InitTables ==
    UNION {{[i \in 1..n |-> BaseRow(i, f[i])] : f \in [1..n -> StreamIds]}
           : n \in 0..MaxRows}

----------------------------------------------------------------------------
\* Inputs of the operations

\* a feature of the stream shapefile: its ID field in tenths, its slope field
\* and its flow field
Feature(idf) == [id |-> idf, slope |-> 50 + idf \div 5, flow |-> 60 + idf \div 5]
FeatureIdFields == {10, 15, 20}
Features == {Feature(idf) : idf \in FeatureIdFields}
Layers == UNION {[1..n -> Features] : n \in 0..MaxFeatures}

\* the flow of reach id at time index t in the RAPID output file
Qout(id, t) == IF (id + t) % 2 = 0 THEN 2 + id ELSE 5 + id
\* the river ID arrays of the RAPID output files tried
RapidFiles == {[rivid |-> r] : r \in {<<2>>, <<2, 1>>}}

\* max_chunk_size = 8*365*5*4000
max_chunk_size == 8 * 365 * 5 * 4000
Budgets == (1..MaxBudget) \cup {max_chunk_size}

\* the return period files tried: the ID arrays they expose and the three
\* statistic arrays aligned with the ID array
ReturnPeriodFiles ==
    { [names |-> {"rivid", "COMID"}, rivid |-> <<2, 3, 2>>, COMID |-> <<1, 1, 1>>,
       return_period_2 |-> <<71, 72, 73>>, return_period_10 |-> <<74, 75, 76>>,
       return_period_20 |-> <<77, 78, 79>>],
      [names |-> {"COMID"}, rivid |-> <<>>, COMID |-> <<1>>,
       return_period_2 |-> <<81>>, return_period_10 |-> <<82>>,
       return_period_20 |-> <<83>>] }
ReturnPeriodNames ==
    {"return_period_20", "return_period_10", "return_period_2", "max_flow", "return_period_100"}

\* the prediction files tried: the ensemble index in the file name and the
\* file's size_time (an ordinary member, and the control member at two
\* resolutions)
Ordinary61 == [ensemble_index |-> 1, size_time |-> 61]
Control125 == [ensemble_index |-> 52, size_time |-> 125]
Control85 == [ensemble_index |-> 52, size_time |-> 85]
\* prediction_files, in the order sorted(..., reverse=True) leaves them
Folders == {<<>>, <<Ordinary61>>, <<Ordinary61, Control125>>, <<Control85, Ordinary61>>}
\* the flow of reach id at time index t in the file of a member
Qens(ensemble_index, id, t) == ensemble_index + id + (t % 4)
\* the reductions whose result is an integer
Methods == {"max", "min"}

NoInput ==
    [layer |-> <<>>, members |-> <<>>, method_x |-> "", method_y |-> "",
     ds |-> [rivid |-> <<>>], window |-> "none", time_range |-> <<>>,
     budget |-> 0, py |-> 0,
     rp |-> [names |-> {}, rivid |-> <<>>, COMID |-> <<>>, return_period_2 |-> <<>>,
             return_period_10 |-> <<>>, return_period_20 |-> <<>>],
     return_period |-> ""]

----------------------------------------------------------------------------
\* What every operation does first and last

\* a faulty variant of BeginCommon: the original is removed as soon as it
\* has been read
BeginCommonRemoveFirst(name, input) ==
    /\ pc \in {"idle", "done"}
    /\ nops < MaxOps
    /\ file.exists
    /\ nops' = nops + 1
    /\ opname' = name
    /\ inp' = input
    /\ orig' = file
    /\ stream_info_table' = file.rows
    /\ log' = {}
    /\ file' = Absent

\* csv_to_list(self.stream_info_file, ", ")[1:] and the locals of a new call
BeginCommon(name, input) ==
    /\ pc \in {"idle", "done"}
    /\ nops < MaxOps
    /\ file.exists
    /\ nops' = nops + 1
    /\ opname' = name
    /\ inp' = input
    /\ orig' = file
    /\ stream_info_table' = file.rows
    /\ log' = {}
    /\ UNCHANGED file

\* the call raises: the exception leaves the "with" block, which closes the
\* temporary file, and reaches the caller
Raise(e) ==
    /\ pc' = "raised"
    /\ err' = e

----------------------------------------------------------------------------
\* Attribute injector: append_slope_to_stream_info_file and
\* append_streamflow_from_stream_shapefile

\* spatially_filter_streamfile_layer_by_elevation_dem: when the filter is
\* set, iteration is confined to the overlapping features; when building it
\* fails the exception is swallowed and the layer is iterated unfiltered
FilteredLayer(features, overlaps, filtered) ==
    IF filtered
    THEN SelectSeq([i \in 1..Len(features) |-> <<features[i], overlaps[i]>>],
                   LAMBDA p : p[2])
    ELSE [i \in 1..Len(features) |-> <<features[i], TRUE>>]

\* stream_info_table[raster_index][:5] + [slope] + stream_info_table[raster_index][6:]
SlopeRow(row, slope) == Take(row, 5) \o <<slope>> \o Drop(row, 6)

\* stream_info_table[raster_index][:6] + [flow]
FlowRow(row, flow) == Take(row, 6) \o <<flow>>

\* a faulty variant of FlowRows: only the first row of the ID gets the flow
FlowRowsFirstOnly(table, id, flow) ==
    LET w == Where(StreamIdList(table), id)
    IN [k \in 1..Len(w) |-> FlowRow(table[w[k]], IF k = 1 THEN flow ELSE 0)]

\* the rows written for one stream ID: the loop over raster_index_list
FlowRows(table, id, flow) ==
    LET w == Where(StreamIdList(table), id)
    IN [k \in 1..Len(w) |-> FlowRow(table[w[k]], flow)]

\* the rows one feature writes in append_slope_to_stream_info_file
SlopeFeatureRows(table, feature) ==
    LET w == Where(StreamIdList(table), IntFloat(feature.id))
    IN [k \in 1..Len(w) |-> SlopeRow(table[w[k]], feature.slope)]

\* the rows one feature writes in append_streamflow_from_stream_shapefile
FlowFeatureRows(table, feature) ==
    FlowRows(table, IntFloat(feature.id), feature.flow)

BeginShapefile(name, header) ==
    \E features \in Layers :
      \E overlaps \in [1..Len(features) -> BOOLEAN], filtered \in BOOLEAN :
        LET kept == FilteredLayer(features, overlaps, filtered)
        IN /\ BeginCommon(name,
                 [NoInput EXCEPT !.layer = [i \in 1..Len(kept) |-> kept[i][1]]])
           /\ temp' = OpenTemp(header, " ")
           /\ idx' = 1
           /\ pc' = "loop"
           /\ err' = "none"

BeginSlope == BeginShapefile("slope", HeaderSlope)

BeginShapefileFlow == BeginShapefile("shapefile_flow", HeaderFlow)

\* one iteration of "for feature in stream_shp_layer"
FeatureStep ==
    /\ pc = "loop"
    /\ opname \in {"slope", "shapefile_flow"}
    /\ idx <= Len(inp.layer)
    /\ temp' = [temp EXCEPT !.rows = @ \o
                  IF opname = "slope"
                  THEN SlopeFeatureRows(stream_info_table, inp.layer[idx])
                  ELSE FlowFeatureRows(stream_info_table, inp.layer[idx])]
    /\ idx' = idx + 1
    /\ UNCHANGED <<file, pc, opname, inp, stream_info_table, log, err, orig, nops>>

----------------------------------------------------------------------------
\* Chunked flow injector: append_streamflow_from_rapid_output

\* time_length: len(time_range) when a range is given, else data_nc.size_time
TimeLength(input) ==
    IF input.window = "range" THEN Len(input.time_range) ELSE MaxTime

\* the time indices the extraction reads
TimeIndices(input) ==
    IF input.window = "range" THEN Range(input.time_range) ELSE 1..MaxTime

\* step_size = min(max_chunk_size/time_length, streamid_list_length) and what
\* range(0, streamid_list_length, step_size) makes of it.  Under Python 2
\* "/" is the integer quotient and a step of 0 is a ValueError; under
\* Python 3 "/" is a float, min returns it when it is not above the length,
\* and range refuses a float with a TypeError.
StepSize(budget, time_length, n, py) ==
    IF py = 2
    THEN LET s == Min(budget \div time_length, n)
         IN IF s = 0 THEN [error |-> "ValueError", step |-> 0]
                     ELSE [error |-> "none", step |-> s]
    ELSE IF budget <= n * time_length
         THEN [error |-> "TypeError", step |-> 0]
         ELSE [error |-> "none", step |-> n]

Step == StepSize(inp.budget, TimeLength(inp), Len(Unique(StreamIdList(stream_info_table))), inp.py).step

\* data_nc.get_river_index(river_id): the position of the ID in the file
RiverIndex(rivid, id) == CHOOSE i \in 1..Len(rivid) : rivid[i] = id

\* data_nc.get_subset_riverid_index_list(ids): the found IDs in the order of
\* their position in the file, and the IDs not found in the order given
ValidIds(rivid, ids) ==
    LET found == {ids[i] : i \in {j \in 1..Len(ids) : ids[j] \in Range(rivid)}}
        pos == SortedSeq({RiverIndex(rivid, id) : id \in found})
    IN [k \in 1..Len(pos) |-> rivid[pos[k]]]
MissingIds(rivid, ids) == SelectSeq(ids, LAMBDA id : id \notin Range(rivid))

\* a faulty variant of PeakFlow: the minimum over the time range read
PeakFlowMin(id, times) ==
    CHOOSE q \in {Qout(id, t) : t \in times} : \A t \in times : q <= Qout(id, t)

\* max(streamflow_array[streamid_index]) over the time range read
PeakFlow(id, times) ==
    CHOOSE q \in {Qout(id, t) : t \in times} : \A t \in times : Qout(id, t) <= q

RECURSIVE ConcatAll(_)
ConcatAll(ss) == IF ss = <<>> THEN <<>> ELSE Head(ss) \o ConcatAll(Tail(ss))

\* the rows one batch writes: the found IDs with their peak, then the
\* missing IDs with 0
BatchRows(table, rivid, ids, times) ==
    LET valid == ValidIds(rivid, ids)
        missing == MissingIds(rivid, ids)
    IN ConcatAll([k \in 1..Len(valid) |->
                    FlowRows(table, valid[k], PeakFlow(valid[k], times))])
       \o ConcatAll([k \in 1..Len(missing) |-> FlowRows(table, missing[k], 0)])

TimeWindows ==
    {[window |-> "none", time_range |-> <<>>], [window |-> "empty", time_range |-> <<>>]}
    \cup {[window |-> "range", time_range |-> [i \in 1..(MaxTime - a + 1) |-> a + i - 1]]
          : a \in 2..MaxTime}

BeginRapid ==
    \E ds \in RapidFiles, tw \in TimeWindows, budget \in Budgets, py \in {2, 3} :
        LET input == [NoInput EXCEPT !.ds = ds, !.window = tw.window,
                                     !.time_range = tw.time_range,
                                     !.budget = budget, !.py = py]
            n == Len(Unique(StreamIdList(file.rows)))
            s == StepSize(budget, TimeLength(input), n, py)
        IN /\ BeginCommon("rapid", input)
           /\ temp' = OpenTemp(HeaderFlow, ",")
           /\ idx' = 0
           /\ IF tw.window = "empty" THEN Raise("NoTimeSteps")
              ELSE IF n <= 0 THEN Raise("IndexError")
              ELSE IF s.error # "none" THEN Raise(s.error)
              ELSE pc' = "loop" /\ err' = "none"

\* one iteration of "for list_index_start in range(0, streamid_list_length, step_size)"
RapidBatch ==
    /\ pc = "loop"
    /\ opname = "rapid"
    /\ LET unique == Unique(StreamIdList(stream_info_table))
       IN /\ idx < Len(unique)
          /\ temp' = [temp EXCEPT !.rows = @ \o
                        BatchRows(stream_info_table, inp.ds.rivid,
                                  SubSeq(unique, idx + 1, Min(idx + Step, Len(unique))),
                                  TimeIndices(inp))]
          /\ idx' = idx + Step
    /\ UNCHANGED <<file, pc, opname, inp, stream_info_table, log, err, orig, nops>>

\* get_subset_riverid_index_list or get_qout_index raises for a batch
ExtractFails ==
    /\ pc = "loop"
    /\ opname = "rapid"
    /\ idx < Len(Unique(StreamIdList(stream_info_table)))
    /\ Raise("ExtractError")
    /\ UNCHANGED <<file, temp, opname, inp, stream_info_table, idx, log, orig, nops>>

----------------------------------------------------------------------------
\* Return period lookup: append_streamflow_from_return_period_file

\* the statistic array the name selects; "OK" is false for the else branch
ReturnPeriodData(rp, name) ==
    CASE name = "return_period_20" -> [ok |-> TRUE, data |-> rp.return_period_20]
      [] name = "return_period_10" -> [ok |-> TRUE, data |-> rp.return_period_10]
      [] name = "return_period_2" -> [ok |-> TRUE, data |-> rp.return_period_2]
      [] name = "max_flow" -> [ok |-> TRUE, data |-> rp.return_period_2]
      [] OTHER -> [ok |-> FALSE, data |-> <<>>]

\* rivid_var = 'COMID', or 'rivid' when the file has it
ReturnPeriodComids(rp) == IF "rivid" \in rp.names THEN rp.rivid ELSE rp.COMID

\* a faulty variant of ReturnPeriodFlow: the last occurrence of the ID
ReturnPeriodFlowLast(rp, name, id) ==
    LET w == Where(ReturnPeriodComids(rp), id)
    IN IF w = <<>> THEN [found |-> FALSE, flow |-> 0]
       ELSE [found |-> TRUE, flow |-> ReturnPeriodData(rp, name).data[w[Len(w)]]]

\* np.where(return_period_comids == streamid)[0][0], or the IndexError
\* handler's peak_flow = 0
ReturnPeriodFlow(rp, name, id) ==
    LET w == Where(ReturnPeriodComids(rp), id)
    IN IF w = <<>> THEN [found |-> FALSE, flow |-> 0]
       ELSE [found |-> TRUE, flow |-> ReturnPeriodData(rp, name).data[w[1]]]

BeginReturnPeriod ==
    \E rp \in ReturnPeriodFiles, name \in ReturnPeriodNames :
        /\ BeginCommon("return_period",
                       [NoInput EXCEPT !.rp = rp, !.return_period = name])
        /\ idx' = 1
        /\ IF ReturnPeriodData(rp, name).ok
           THEN /\ temp' = OpenTemp(HeaderFlow, " ")
                /\ pc' = "loop"
                /\ err' = "none"
           ELSE /\ Raise("Exception")
                /\ UNCHANGED temp

\* one iteration of "for streamid in streamid_list_unique"
ReturnPeriodStep ==
    /\ pc = "loop"
    /\ opname = "return_period"
    /\ LET unique == Unique(StreamIdList(stream_info_table))
       IN /\ idx <= Len(unique)
          /\ LET r == ReturnPeriodFlow(inp.rp, inp.return_period, unique[idx])
             IN /\ temp' = [temp EXCEPT !.rows = @ \o
                              FlowRows(stream_info_table, unique[idx], r.flow)]
                /\ log' = IF r.found THEN log ELSE log \cup {unique[idx]}
          /\ idx' = idx + 1
    /\ UNCHANGED <<file, pc, opname, inp, stream_info_table, err, orig, nops>>

----------------------------------------------------------------------------
\* Ensemble flow: append_streamflow_from_ecmwf_rapid_output

\* s[a:b:k] of Python, a and b counted from 0
PySlice(s, a, b, k) ==
    LET stop == Min(b, Len(s))
        cnt == IF stop > a THEN (stop - a + k - 1) \div k ELSE 0
        picked == [i \in 1..cnt |-> s[a + (i - 1) * k + 1]]
    IN SubSeq(picked, 1, cnt)

Zeros(width) == LET z == [i \in 1..width |-> 0] IN SubSeq(z, 1, width)

\* first_half_size, from the size_time of prediction_files[0]
FirstHalfSize(size_time) ==
    IF size_time = 41 \/ size_time = 61 THEN 41
    ELSE IF size_time = 85 \/ size_time = 125 THEN 65
    ELSE 40

second_half_size == 20

\* numpy assigns a series to a buffer slot of the given width when the
\* lengths agree or the series has one element, and raises otherwise
Assignable(series, width) == Len(series) = width \/ Len(series) = 1
Assigned(series, width) ==
    IF Len(series) = width THEN series
    ELSE LET spread == [i \in 1..width |-> series[1]] IN SubSeq(spread, 1, width)

\* the series get_qout_index returns for the reach in the file of a member
MemberSeries(member, id) ==
    LET series == [t \in 1..member.size_time |-> Qens(member.ensemble_index, id, t)]
    IN SubSeq(series, 1, Len(series))

\* the control member's series aligned with the first half
Spliced(series, size_time, first_half_size) ==
    IF first_half_size = 65
    THEN PySlice(series, 0, 90, 3) \o PySlice(series, 90, Len(series), 1)
    ELSE IF size_time = 125
    THEN PySlice(series, 0, 90, 6) \o PySlice(series, 90, 109, 2)
         \o PySlice(series, 109, Len(series), 1)
    ELSE series

\* the slots of one prediction file in the two accumulation buffers after
\* the body of "for file_index, prediction_file in enumerate(prediction_files)":
\* an exception of an assignment is caught and leaves the slot at zero
MemberSlots(member, found, id, first_half_size) ==
    LET series == MemberSeries(member, id)
        none == [first |-> Zeros(first_half_size), second |-> Zeros(second_half_size)]
    IN IF ~found THEN none
       ELSE IF member.ensemble_index < 52
       THEN LET prefix == PySlice(series, 0, first_half_size, 1)
                tail == PySlice(series, first_half_size, Len(series), 1)
            IN IF ~Assignable(prefix, first_half_size) THEN none
               ELSE [first |-> Assigned(prefix, first_half_size),
                     second |-> IF Assignable(tail, second_half_size)
                                THEN Assigned(tail, second_half_size)
                                ELSE Zeros(second_half_size)]
       ELSE IF member.ensemble_index = 52
       THEN LET spliced == Spliced(series, member.size_time, first_half_size)
            IN IF Assignable(spliced, first_half_size)
               THEN [none EXCEPT !.first = Assigned(spliced, first_half_size)]
               ELSE none
       ELSE none

\* np.amax / np.amin of a non-empty set of values
Reduce(method, values) ==
    IF method = "max" THEN CHOOSE v \in values : \A w \in values : w <= v
    ELSE CHOOSE v \in values : \A w \in values : v <= w

\* the body of "for comid_index in range(len(streamid_list_unique))" raises
\* nothing for a series of the member's file, so the loop goes on to the next
\* comid_index
Completes(member, first_half_size) ==
    LET series == MemberSeries(member, 0)
    IN IF member.ensemble_index < 52
       THEN /\ Assignable(PySlice(series, 0, first_half_size, 1), first_half_size)
            /\ Assignable(PySlice(series, first_half_size, Len(series), 1),
                          second_half_size)
       ELSE IF member.ensemble_index = 52
       THEN Assignable(Spliced(series, member.size_time, first_half_size),
                       first_half_size)
       ELSE TRUE

\* data_val of streamid_list_unique[comid_index]: stage X across the members
\* at every time, stage Y over the concatenated series.  data_values_2d_array
\* holds one series per found ID, in the order of the found IDs' positions in
\* the first file, and is indexed by comid_index; an index past its end is an
\* IndexError, caught like every exception of the body.
EnsembleFlow(members, rivid, unique, comid_index, method_x, method_y) ==
    LET fhs == FirstHalfSize(members[1].size_time)
        valid == ValidIds(rivid, unique)
        reached(m) == /\ comid_index <= Len(valid)
                      /\ comid_index = 1 \/ Completes(members[m], fhs)
        filled == [m \in 1..Len(members) |->
                     MemberSlots(members[m], reached(m),
                                 IF comid_index <= Len(valid) THEN valid[comid_index] ELSE 0,
                                 fhs)]
        slots == SubSeq(filled, 1, Len(members))
        series == [t \in 1..fhs |->
                     Reduce(method_x, {slots[m].first[t] : m \in 1..Len(members)})]
                  \o [t \in 1..second_half_size |->
                     Reduce(method_x, {slots[m].second[t] : m \in 1..Len(members)})]
    IN Reduce(method_y, Range(series))

\* "if not streamid_list_unique": the truth value of a numpy array is that of
\* its element when it has one, false when it has none (the branch raises),
\* and a ValueError when it has more than one
UniqueCheck(unique) ==
    IF Len(unique) > 1 THEN "ValueError"
    ELSE IF Len(unique) = 0 \/ unique[1] = 0 THEN "Exception"
    ELSE "none"

BeginEcmwf ==
    LET check == UniqueCheck(Unique(StreamIdList(file.rows)))
    IN IF check # "none"
       THEN /\ BeginCommon("ecmwf", NoInput)
            /\ idx' = 1
            /\ Raise(check)
            /\ UNCHANGED temp
       ELSE \E ds \in RapidFiles, members \in Folders, mx \in Methods, my \in Methods :
            /\ BeginCommon("ecmwf", [NoInput EXCEPT !.ds = ds, !.members = members,
                                                    !.method_x = mx, !.method_y = my])
            /\ idx' = 1
            /\ IF members = <<>> THEN Raise("IndexError") /\ UNCHANGED temp
               ELSE /\ temp' = OpenTemp(HeaderEcmwf, " ")
                    /\ pc' = "loop"
                    /\ err' = "none"

\* one iteration of "for streamid_index, streamid in enumerate(streamid_list_unique)"
EcmwfStep ==
    /\ pc = "loop"
    /\ opname = "ecmwf"
    /\ LET unique == Unique(StreamIdList(stream_info_table))
       IN /\ idx <= Len(unique)
          /\ temp' = [temp EXCEPT !.rows = @ \o
                        FlowRows(stream_info_table, unique[idx],
                                 EnsembleFlow(inp.members, inp.ds.rivid, unique, idx,
                                              inp.method_x, inp.method_y))]
          /\ idx' = idx + 1
    /\ UNCHANGED <<file, pc, opname, inp, stream_info_table, log, err, orig, nops>>

----------------------------------------------------------------------------
\* The steps every operation shares

\* the outer loop of the running operation has no iteration left
LoopDone ==
    CASE opname \in {"slope", "shapefile_flow"} -> idx > Len(inp.layer)
      [] opname = "rapid" -> idx >= Len(Unique(StreamIdList(stream_info_table)))
      [] opname \in {"return_period", "ecmwf"} ->
            idx > Len(Unique(StreamIdList(stream_info_table)))
      [] OTHER -> FALSE

\* the end of the "with" block: the temporary file is closed
CloseTemp ==
    /\ pc = "loop"
    /\ LoopDone
    /\ pc' = "written"
    /\ UNCHANGED <<file, temp, opname, inp, stream_info_table, idx, log, err, orig, nops>>

\* an I/O error while the temporary file is being written
WriteFails ==
    /\ pc = "loop"
    /\ Raise("IOError")
    /\ UNCHANGED <<file, temp, opname, inp, stream_info_table, idx, log, orig, nops>>

\* os.remove(self.stream_info_file)
Remove ==
    /\ pc = "written"
    /\ file' = Absent
    /\ pc' = "removed"
    /\ UNCHANGED <<temp, opname, inp, stream_info_table, idx, log, err, orig, nops>>

\* os.rename(temp_stream_info_file, self.stream_info_file)
Rename ==
    /\ pc = "removed"
    /\ file' = temp
    /\ temp' = Absent
    /\ pc' = "done"
    /\ UNCHANGED <<opname, inp, stream_info_table, idx, log, err, orig, nops>>

----------------------------------------------------------------------------
Init ==
    /\ file \in {[exists |-> TRUE, header |-> Header5, delim |-> " ", rows |-> t]
                 : t \in InitTables}
    /\ temp = Absent
    /\ pc = "idle"
    /\ opname = "none"
    /\ inp = NoInput
    /\ stream_info_table = <<>>
    /\ idx = 1
    /\ log = {}
    /\ err = "none"
    /\ orig = file
    /\ nops = 0

Next ==
    \/ BeginSlope
    \/ BeginShapefileFlow
    \/ FeatureStep
    \/ BeginRapid
    \/ RapidBatch
    \/ ExtractFails
    \/ BeginReturnPeriod
    \/ ReturnPeriodStep
    \/ BeginEcmwf
    \/ EcmwfStep
    \/ CloseTemp
    \/ WriteFails
    \/ Remove
    \/ Rename

Spec == Init /\ [][Next]_vars

\* The last of the MaxOps append operations, called on a table the earlier
\* ones may have left: the table of the upstream step, that table after a
\* slope append, or after a slope append and a flow append, both from a
\* shapefile that has one feature for each stream ID.
SlopeAppended(table) ==
    ConcatAll([k \in 1..MaxId |-> SlopeFeatureRows(table, Feature(10 * k))])

FlowAppended(table) ==
    ConcatAll([k \in 1..MaxId |-> FlowFeatureRows(table, Feature(10 * k))])

InitOne ==
    /\ file \in
         {[exists |-> TRUE, header |-> Header5, delim |-> " ", rows |-> t]
          : t \in InitTables}
         \cup {[exists |-> TRUE, header |-> HeaderSlope, delim |-> " ",
                rows |-> SlopeAppended(t)] : t \in InitTables}
         \cup {[exists |-> TRUE, header |-> HeaderFlow, delim |-> " ",
                rows |-> FlowAppended(SlopeAppended(t))] : t \in InitTables}
    /\ temp = Absent
    /\ pc = "idle"
    /\ opname = "none"
    /\ inp = NoInput
    /\ stream_info_table = <<>>
    /\ idx = 1
    /\ log = {}
    /\ err = "none"
    /\ orig = file
    /\ nops = MaxOps - 1

SpecOne == InitOne /\ [][Next]_vars

\* MaxOps append operations in a row on a table that already has slope
InitTwice ==
    /\ file \in {[exists |-> TRUE, header |-> HeaderSlope, delim |-> " ",
                  rows |-> SlopeAppended(t)] : t \in InitTables}
    /\ temp = Absent
    /\ pc = "idle"
    /\ opname = "none"
    /\ inp = NoInput
    /\ stream_info_table = <<>>
    /\ idx = 1
    /\ log = {}
    /\ err = "none"
    /\ orig = file
    /\ nops = 0

SpecTwice == InitTwice /\ [][Next]_vars

----------------------------------------------------------------------------
\* Properties

Rows == file.rows
NumRows == Len(file.rows)
Last(row) == row[Len(row)]
ButLast(row) == SubSeq(row, 1, Len(row) - 1)
ShapefileOps == {"slope", "shapefile_flow"}
DischargeOps == {"rapid", "ecmwf", "return_period"}
FlowOps == {"shapefile_flow", "rapid", "ecmwf", "return_period"}
\* the cell the finished operation injected into a row
Injected(row) == IF opname = "slope" THEN row[6] ELSE Last(row)

\* C1: when an append operation fails while the new table is being assembled
\* and written to the temporary file, the stream info file still exists and
\* is identical to what it was when the call began (no step of the replace
\* has run).
C1_FailureLeavesOriginal ==
    pc = "raised" => file.exists /\ file = orig

\* a batch of the chunked flow injector fails after an earlier batch has
\* written its rows to the temporary file
C1_Witness ==
    /\ pc = "raised"
    /\ opname = "rapid"
    /\ err = "ExtractError"
    /\ Len(temp.rows) > 0
    /\ file.exists

\* C2: after the single-run peak-flow append, every row of the table read
\* is there with its prior columns and, as flow, the maximum of its stream
\* ID's discharge over the selected time indices when the ID is in the
\* source, and 0 when it is not.
C2_PeakOrZero ==
    (pc = "done" /\ opname = "rapid") =>
        LET times == IF inp.window = "range"
                     THEN {inp.time_range[k] : k \in 1..Len(inp.time_range)}
                     ELSE 1..MaxTime
            Found(id) == \E p \in 1..Len(inp.ds.rivid) : inp.ds.rivid[p] = id
        IN /\ NumRows = Len(stream_info_table)
           /\ \A i \in 1..Len(stream_info_table) :
                \E j \in 1..NumRows :
                    LET old == stream_info_table[i]
                        flow == Last(Rows[j])
                    IN /\ ButLast(Rows[j]) = Take(old, 6)
                       /\ IF Found(old[4])
                          THEN /\ \E t \in times : flow = Qout(old[4], t)
                               /\ \A t \in times : Qout(old[4], t) <= flow
                          ELSE flow = 0

\* a finished run in which one ID with two rows was found, with a peak above
\* 0, and another ID was missing
C2_Witness ==
    /\ pc = "done"
    /\ opname = "rapid"
    /\ \E i, j, k \in 1..NumRows :
        /\ i # j
        /\ Rows[i][4] = Rows[j][4]
        /\ Rows[i][4] \in Range(inp.ds.rivid)
        /\ Last(Rows[i]) > 0
        /\ Rows[k][4] \notin Range(inp.ds.rivid)
        /\ Last(Rows[k]) = 0

\* the values the features of the iterated layer carry for a truncated ID
FeatureValues(sid) ==
    {IF opname = "slope" THEN inp.layer[k].slope ELSE inp.layer[k].flow
     : k \in {n \in 1..Len(inp.layer) : IntFloat(inp.layer[n].id) = sid}}

C4_BatchingInvisible ==
    (pc = "done" /\ opname = "rapid") =>
        Rows = BatchRows(stream_info_table, inp.ds.rivid,
                         Unique(StreamIdList(stream_info_table)), TimeIndices(inp))

\* C5: after the return-period append, every row of the table read is there
\* with its prior columns and, as flow, the selected statistic at the first
\* position of its stream ID in the file's ID array, or 0 when the ID is not
\* in the array; the diagnostics name exactly the IDs not in the array; and
\* the operation never raises an IndexError for a miss.  ("max_flow" selects
\* return_period_2.)
C5_ReturnPeriodOrZero ==
    /\ (pc = "raised" /\ opname = "return_period") => err # "IndexError"
    /\ (pc = "done" /\ opname = "return_period") =>
        LET ids == IF "rivid" \in inp.rp.names THEN inp.rp.rivid ELSE inp.rp.COMID
            stat == IF inp.return_period = "return_period_20" THEN inp.rp.return_period_20
                    ELSE IF inp.return_period = "return_period_10" THEN inp.rp.return_period_10
                    ELSE inp.rp.return_period_2
            Occurs(id) == \E p \in 1..Len(ids) : ids[p] = id
            First(id) == CHOOSE p \in 1..Len(ids) :
                            ids[p] = id /\ \A q \in 1..(p - 1) : ids[q] # id
        IN /\ NumRows = Len(stream_info_table)
           /\ \A i \in 1..Len(stream_info_table) :
                \E j \in 1..NumRows :
                    LET old == stream_info_table[i]
                    IN /\ ButLast(Rows[j]) = Take(old, 6)
                       /\ Last(Rows[j]) = IF Occurs(old[4]) THEN stat[First(old[4])] ELSE 0
           /\ log = {stream_info_table[i][4] : i \in 1..Len(stream_info_table)}
                    \ {ids[p] : p \in 1..Len(ids)}

\* a finished return-period lookup in which one ID occurs twice in the ID
\* array and another ID of the table is missing and named by a diagnostic
C5_Witness ==
    /\ pc = "done"
    /\ opname = "return_period"
    /\ inp.return_period = "return_period_10"
    /\ log # {}
    /\ \E i, k \in 1..NumRows :
        /\ Rows[k][4] \in log
        /\ Last(Rows[k]) = 0
        /\ Rows[i][4] \notin log
        /\ Last(Rows[i]) > 0
    /\ \E i \in 1..NumRows :
        Len(Where(ReturnPeriodComids(inp.rp), Rows[i][4])) > 1

\* C6: at every step of an append operation the stream info path holds a
\* complete table, the original or the new one; it is never absent.
C6_AtomicReplace ==
    /\ file.exists
    /\ file = orig \/ pc = "done"

\* the identity columns of the rows of a table
Identities(table) == [i \in 1..Len(table) |-> Take(table[i], 5)]

\* the rows of a table that carry a stream ID, in the order of the table
RowsOfId(idents, sid) == SelectSeq(idents, LAMBDA r : r[4] = sid)

\* out is a concatenation of blocks, each block being all rows of one stream
\* ID of the table read, in the order they were read
RECURSIVE IsBlocks(_, _)
IsBlocks(out, read) ==
    IF out = <<>> THEN TRUE
    ELSE LET block == RowsOfId(read, out[1][4])
         IN /\ Len(block) <= Len(out)
            /\ SubSeq(out, 1, Len(block)) = block
            /\ IsBlocks(SubSeq(out, Len(block) + 1, Len(out)), read)

ConfigurationError ==
    \/ opname \in DischargeOps /\ stream_info_table = <<>>
    \/ opname = "rapid" /\ inp.window = "empty"
    \/ opname = "return_period" /\ ~ReturnPeriodData(inp.rp, inp.return_period).ok

\* C8: a configuration error makes the operation raise, and when it has
\* raised neither the temporary file nor the table has been created or
\* modified.
C8_ConfigErrorBeforeWrite ==
    (pc # "idle" /\ ConfigurationError) =>
        /\ pc = "raised"
        /\ temp = Absent
        /\ file = orig

\* C9: after an append operation no row has fewer than its five columns, a
\* slope append leaves slope in column 6 and the flow an earlier append
\* wrote in column 7, and a flow append leaves seven columns with flow in
\* column 7 and the earlier column 6 in place.
C9_ColumnsGrow ==
    pc = "done" =>
        \A j \in 1..NumRows :
            \E i \in 1..Len(stream_info_table) :
                LET old == stream_info_table[i]
                    new == Rows[j]
                IN /\ Take(new, 5) = Take(old, 5)
                   /\ Len(new) >= Len(old)
                   /\ opname = "slope" =>
                        /\ Len(new) >= 6
                        /\ Drop(new, 6) = Drop(old, 6)
                   /\ opname \in FlowOps =>
                        /\ Len(new) = 7
                        /\ Take(new, 6) = Take(old, 6)

\* C10: the attribute injector keeps every row of the table read: a row
\* whose stream ID is the truncated ID of a feature is there with that
\* feature's value, and a row that matches no feature is there unchanged.
C10_EveryRowKept ==
    (pc = "done" /\ opname \in ShapefileOps) =>
        \A i \in 1..Len(stream_info_table) :
            \E j \in 1..NumRows :
                LET old == stream_info_table[i]
                IN /\ Take(Rows[j], 5) = Take(old, 5)
                   /\ FeatureValues(old[4]) = {} => Rows[j] = old
                   /\ FeatureValues(old[4]) # {} => Injected(Rows[j]) \in FeatureValues(old[4])

\* C11: in the single-run peak-flow append, for every table with at least
\* one unique stream ID and every time length of at least 1, also one above
\* the element budget, the batching loop is entered (step_size is accepted
\* by range), every batch starts where the last one ended and is not empty,
\* batch_size * time_length stays within the element budget, and the batches
\* together write every row of the table read once.
C11_BatchesWithinBudget ==
    LET n == Len(Unique(StreamIdList(stream_info_table)))
    IN (opname = "rapid" /\ pc # "idle" /\ n >= 1 /\ inp.window # "empty") =>
        /\ err \notin {"ValueError", "TypeError"}
        /\ pc = "loop" =>
            /\ Step >= 1
            /\ Step * TimeLength(inp) <= inp.budget
            /\ idx % Step = 0
        /\ pc = "written" => Len(temp.rows) = Len(stream_info_table)

\* the flow reduced from the ID's own discharge series in each member file
OwnSeriesFlow(members, id, method_x, method_y) ==
    LET fhs == FirstHalfSize(members[1].size_time)
        filled == [m \in 1..Len(members) |-> MemberSlots(members[m], TRUE, id, fhs)]
        slots == SubSeq(filled, 1, Len(members))
        series == [t \in 1..fhs |->
                     Reduce(method_x, {slots[m].first[t] : m \in 1..Len(members)})]
                  \o [t \in 1..second_half_size |->
                     Reduce(method_x, {slots[m].second[t] : m \in 1..Len(members)})]
    IN Reduce(method_y, Range(series))

\* the finished ensemble flow append gave every row of an absent ID flow 0
\* and every row of a present ID the flow reduced from that ID's own series
C12_OwnSeriesOrZero ==
    (pc = "done" /\ opname = "ecmwf") =>
        /\ NumRows = Len(stream_info_table)
        /\ \A i \in 1..Len(stream_info_table) :
            \E j \in 1..NumRows :
                LET old == stream_info_table[i]
                IN /\ ButLast(Rows[j]) = Take(old, 6)
                   /\ Last(Rows[j]) =
                        IF old[4] \in Range(inp.ds.rivid)
                        THEN OwnSeriesFlow(inp.members, old[4], inp.method_x, inp.method_y)
                        ELSE 0

\* C12: the ensemble flow append of a table that has stream IDs does not
\* fail on the stream IDs (absent from the datasets or not), and when it has
\* finished every row of an absent ID has flow 0 and every row of a present
\* ID has the flow reduced from that ID's own discharge series in each
\* member file.
C12_AbsentIdsGetZero ==
    /\ (pc = "raised" /\ opname = "ecmwf" /\ stream_info_table # <<>>) =>
            err \notin {"ValueError", "Exception"}
    /\ C12_OwnSeriesOrZero

\* C13: in the ensemble flow append every member is aligned with the
\* accumulation buffers: an ordinary member's prefix has the first-half
\* width and its tail the second-half width, and the control member's
\* spliced series has the first-half width, so every assignment fits and no
\* slot is left unfilled, whatever the series lengths of the members.
C13_MembersAligned ==
    (opname = "ecmwf" /\ pc \in {"loop", "written", "removed", "done"}) =>
        LET fhs == FirstHalfSize(inp.members[1].size_time)
            id == Unique(StreamIdList(stream_info_table))[1]
        IN \A m \in 1..Len(inp.members) :
            LET member == inp.members[m]
                series == MemberSeries(member, id)
            IN IF member.ensemble_index < 52
               THEN /\ Len(PySlice(series, 0, fhs, 1)) = fhs
                    /\ Len(PySlice(series, fhs, Len(series), 1)) = second_half_size
               ELSE Len(Spliced(series, member.size_time, fhs)) = fhs

\* the rows a whole run of a flow append writes for the table it read: all
\* iterations of the feature loop, of the batch loop, of the loop over the
\* unique IDs
ShapefileFlowTable(table, layer) ==
    ConcatAll([k \in 1..Len(layer) |-> FlowFeatureRows(table, layer[k])])

RapidTable(table, input) ==
    LET unique == Unique(StreamIdList(table))
        n == Len(unique)
        step == StepSize(input.budget, TimeLength(input), n, input.py).step
        batches == IF step = 0 THEN 0 ELSE (n + step - 1) \div step
    IN ConcatAll([b \in 1..batches |->
                    BatchRows(table, input.ds.rivid,
                              SubSeq(unique, (b - 1) * step + 1, Min(b * step, n)),
                              TimeIndices(input))])

ReturnPeriodTable(table, input) ==
    LET unique == Unique(StreamIdList(table))
    IN ConcatAll([k \in 1..Len(unique) |->
                    FlowRows(table, unique[k],
                             ReturnPeriodFlow(input.rp, input.return_period, unique[k]).flow)])

FlowAppendTable(name, table, input) ==
    CASE name = "shapefile_flow" -> ShapefileFlowTable(table, input.layer)
      [] name = "rapid" -> RapidTable(table, input)
      [] name = "return_period" -> ReturnPeriodTable(table, input)

\* the finished run wrote what the whole-run operators give
FlowAppendTableIsRun ==
    (pc = "done" /\ opname \in {"shapefile_flow", "rapid", "return_period"}) =>
        Rows = FlowAppendTable(opname, stream_info_table, inp)

\* C14: when a flow append (single-run peak, return period or shapefile
\* flow) has finished on a table that is itself what the same operation with
\* the same source leaves of a table with slope, the table is as it was
\* before this second run, rows and sequence, and every row has 7 columns.
C14_FlowAppendIdempotent ==
    ( /\ pc = "done"
      /\ opname \in {"shapefile_flow", "rapid", "return_period"}
      /\ \E t \in InitTables :
            stream_info_table = FlowAppendTable(opname, SlopeAppended(t), inp) ) =>
        /\ Rows = stream_info_table
        /\ \A j \in 1..NumRows : Len(Rows[j]) = 7

====
